---- MODULE Spec2Model ----
(***************************************************************************)
(* Model of hkl.diffract.Diffractometer (src/hkl/diffract.py):             *)
(*   - the constraint stack: apply_constraints, undo_last_constraints,     *)
(*     reset_constraints over the solver's per-axis limits/value/fit;      *)
(*   - the energy / energy_units / energy_offset / energy_update_calc_flag *)
(*     signals and the callbacks subscribed to them, as whole puts and     *)
(*     callback by callback;                                               *)
(*   - construction, forward, inverse and check_value;                     *)
(*   - the constraint operations when the device is not connected, when    *)
(*     the solver refuses a write, and when two threads call them.         *)
(* The solver (self.calc) and the ophyd signals are external: an axis of   *)
(* the solver is a store of (low_limit, high_limit, value, fit); a signal  *)
(* put stores the value and then runs the subscribed callback to its end.  *)
(***************************************************************************)
EXTENDS Integers, Sequences, FiniteSets, TLC

VARIABLES
    calcAxes,     \* self.calc[m] for every real axis m: a Constraint record
    stack,        \* self._constraints_stack
    chist,        \* the last constraint operations, oldest first (observer)
    baseline,     \* calcAxes just before the first apply since the stack was last empty (observer)
    applied,      \* applies less effective undos since the last reset (observer)
    energy,       \* self.energy (public field, in energy_units)
    units,        \* self.energy_units
    offset,       \* self.energy_offset
    flag,         \* self.energy_update_calc_flag
    connected,    \* self.connected
    calcEnergy,   \* self.calc.energy (keV)
    elast,        \* the last energy operation and its effects (observer)
    trip,         \* progress of a unit round trip (observer)
    scene,        \* progress of the energy / offset / units scenario (observer)
    position,     \* self.position: the current real position
    decisionFcn,  \* self._decision_fcn
    engineLocked, \* self.calc.engine_locked of the bound solver
    calcPhysical, \* self.calc.physical_positions
    alast,        \* the last adapter operation and its effects (observer)
    frames,       \* the callbacks of a put that have not returned, innermost last
    chain,        \* the put that started the running callbacks and what they did (observer)
    threads,      \* the constraint operation each thread of the host is in, and how far
    serialized,   \* the host lets one constraint operation run at a time
    lastPush      \* the last snapshot pushed by a thread and whether it is torn (observer)

rvars == <<threads, serialized, lastPush>>
cvars == <<calcAxes, stack, chist, baseline, applied, threads, serialized, lastPush>>
nvars == <<frames, chain>>
evars == <<energy, units, offset, flag, connected, calcEnergy, elast, trip, scene, frames, chain>>
avars == <<position, decisionFcn, engineLocked, calcPhysical, alast>>
vars == <<calcAxes, stack, chist, baseline, applied, energy, units, offset, flag, connected, calcEnergy,
         elast, trip, scene, position, decisionFcn, engineLocked, calcPhysical, alast,
         frames, chain, threads, serialized, lastPush>>

-----------------------------------------------------------------------------
(* Bounds *)

\* apply_constraints is offered while the stack is shorter than this
MaxStack == 3

\* number of most recent constraint operations the observer chist keeps
HistLen == 3

-----------------------------------------------------------------------------
(* Constraint = namedtuple("Constraint", low_limit high_limit value fit) *)

Constraint(lo, hi, v, f) == [low_limit |-> lo, high_limit |-> hi, value |-> v, fit |-> f]

\* the real positioners of the device
RealAxes == {"omega", "tth"}

\* the solver's per-axis state at construction
InitialConstraint == Constraint(-180, 180, 0, TRUE)

\* constraints a caller passes to apply_constraints
ConstraintChoices == {Constraint(-5, 180, 0, TRUE), Constraint(-10, 170, 5, FALSE)}

\* the dicts a caller passes: any subset of the real axes, any of the values
ConstraintSets == UNION {[S -> ConstraintChoices] : S \in SUBSET RealAxes}

-----------------------------------------------------------------------------
(* The constraint stack *)

CurrentConstraintsFitDropped(calc) ==
    [m \in RealAxes |->
        Constraint(calc[m].low_limit, calc[m].high_limit, calc[m].value, TRUE)]

\* Constraint(*self.calc[m].limits, self.calc[m].value, self.calc[m].fit) for every real axis
CurrentConstraints(calc) ==
    [m \in RealAxes |->
        Constraint(calc[m].low_limit, calc[m].high_limit, calc[m].value, calc[m].fit)]

\* _push_current_constraints: append the snapshot of every real axis
PushCurrentConstraints(calc, stk) == Append(stk, CurrentConstraints(calc))

\* _set_constraints: for every axis of the dict write limits, then value, then fit
SetConstraints(calc, constraints) ==
    [m \in RealAxes |->
        IF m \in DOMAIN constraints
        THEN Constraint(constraints[m].low_limit, constraints[m].high_limit,
                        constraints[m].value, constraints[m].fit)
        ELSE calc[m]]

\* the axes _set_constraints writes
AxesWritten(constraints) == DOMAIN constraints

\* the stack after .pop()
Popped(stk) == SubSeq(stk, 1, Len(stk) - 1)

\* what one constraint operation leaves: the solver's axes, the stack, the axes
\* it wrote into the solver and whether it raised
Outcome(calc, stk, written, raised) ==
    [calc |-> calc, stack |-> stk, written |-> written, raised |-> raised]

ApplyConstraintsIfConnected(calc, stk, constraints) ==
    IF connected
    THEN Outcome(SetConstraints(calc, constraints), PushCurrentConstraints(calc, stk),
                 AxesWritten(constraints), FALSE)
    ELSE Outcome(calc, stk, {}, FALSE)

ApplyConstraintsSetFirst(calc, stk, constraints) ==
    Outcome(SetConstraints(calc, constraints),
            PushCurrentConstraints(SetConstraints(calc, constraints), stk),
            AxesWritten(constraints), FALSE)

\* apply_constraints(constraints): push the current constraints, then set the new ones
ApplyConstraintsOutcome(calc, stk, constraints) ==
    Outcome(SetConstraints(calc, constraints), PushCurrentConstraints(calc, stk),
            AxesWritten(constraints), FALSE)

\* reset_constraints(): a list index out of range raises IndexError
ResetGuardless(calc, stk) ==
    IF Len(stk) > 0
    THEN Outcome(SetConstraints(calc, stk[1]), <<>>, AxesWritten(stk[1]), FALSE)
    ELSE Outcome(calc, <<>>, {}, TRUE)

ResetNewest(calc, stk) ==
    IF Len(stk) > 0
    THEN Outcome(SetConstraints(calc, stk[Len(stk)]), <<>>, AxesWritten(stk[Len(stk)]), FALSE)
    ELSE Outcome(calc, stk, {}, FALSE)

\* reset_constraints(): with a non-empty stack set element 0 and empty the stack
ResetConstraintsOutcome(calc, stk) ==
    IF Len(stk) > 0
    THEN Outcome(SetConstraints(calc, stk[1]), <<>>, AxesWritten(stk[1]), FALSE)
    ELSE Outcome(calc, stk, {}, FALSE)

UndoOldest(calc, stk) ==
    IF Len(stk) > 0
    THEN Outcome(SetConstraints(calc, stk[1]), Tail(stk), AxesWritten(stk[1]), FALSE)
    ELSE Outcome(calc, stk, {}, FALSE)

\* undo_last_constraints(): with a non-empty stack pop the last element and set it
UndoLastConstraintsOutcome(calc, stk) ==
    IF Len(stk) > 0
    THEN Outcome(SetConstraints(calc, stk[Len(stk)]), Popped(stk),
                 AxesWritten(stk[Len(stk)]), FALSE)
    ELSE Outcome(calc, stk, {}, FALSE)

\* observers: keep the HistLen most recent records
Remember(h, rec) ==
    IF Len(h) < HistLen THEN Append(h, rec) ELSE Append(Tail(h), rec)

\* observer: count the calls, not the stack: an apply is one more, an undo one
\* less unless there is none to undo, a reset none
AppliedAfter(op) ==
    IF op = "apply" THEN applied + 1
    ELSE IF op = "undo" THEN (IF applied > 0 THEN applied - 1 ELSE 0)
    ELSE 0

\* a constraint operation `op` with outcome `out` acts on the device
DoConstraintOp(op, out) ==
    /\ calcAxes' = out.calc
    /\ stack' = out.stack
    /\ chist' = Remember(chist, [op |-> op, pre |-> calcAxes, preLen |-> Len(stack),
                                 base |-> baseline, written |-> out.written,
                                 raised |-> out.raised])
    /\ baseline' = IF out.stack = <<>> THEN out.calc ELSE baseline
    /\ applied' = AppliedAfter(op)
    /\ UNCHANGED <<evars, avars, rvars>>

\* a caller calls apply_constraints(constraints)
ApplyConstraints(constraints) ==
    /\ Len(stack) < MaxStack
    /\ DoConstraintOp("apply", ApplyConstraintsOutcome(calcAxes, stack, constraints))

\* a caller calls reset_constraints()
ResetConstraints == DoConstraintOp("reset", ResetConstraintsOutcome(calcAxes, stack))

\* a caller calls undo_last_constraints()
UndoLastConstraints == DoConstraintOp("undo", UndoLastConstraintsOutcome(calcAxes, stack))

-----------------------------------------------------------------------------
(* Energy, units, offset *)

\* numbers are fixed-point: the integer n stands for n / One
One == 10 ^ 4

Tenth == One \div 10

\* pint: 1 keV = 1000 eV
EvPerKeV == 1000

\* energy = Cpt(Signal, value=8.0)
DefaultEnergy == 8 * One

\* unit names a caller puts to energy_units; pint converts the first two to and from keV
SupportedUnits == {"keV", "eV"}

UnitNames == SupportedUnits \cup {"furlong"}

\* values a caller puts to energy (multiples of 0.1, so that eV -> keV is exact)
Energies == {0, 8 * One, 12 * One}

\* values a caller puts to energy_offset
Offsets == {0, Tenth}

\* acceptable_values of _calc_energy_update_permitted; signal values are written as text
AcceptableValues == {"1", "Yes", "locked", "OK", "True", "On"}

\* values a caller puts to energy_update_calc_flag
FlagChoices == {"True", "OK", "Off"}

\* pint.Quantity(x, "keV").to(u).magnitude
FromKeV(x, u) == IF u = "keV" THEN x ELSE x * EvPerKeV

\* pint.Quantity(x, u).to("keV").magnitude
ToKeV(x, u) == IF u = "keV" THEN x ELSE x \div EvPerKeV

\* the division of ToKeV leaves no remainder
ExactToKeV(x, u) == u = "keV" \/ x % EvPerKeV = 0

\* the signals, the connection state and the solver energy as one record
Device ==
    [energy |-> energy, units |-> units, offset |-> offset, flag |-> flag,
     connected |-> connected, calcEnergy |-> calcEnergy]

\* what a call leaves: the device, how often it wrote calc.energy, put the energy
\* signal and recomputed the position, the exception it raised ("" for none),
\* whether it logged the not-connected warning, whether its arithmetic was exact
Effect(d, solverWrites, energyPuts, positionUpdates, raised, warned, exact) ==
    [d |-> d, solverWrites |-> solverWrites, energyPuts |-> energyPuts,
     positionUpdates |-> positionUpdates, raised |-> raised, warned |-> warned,
     exact |-> exact]

NoEffect(d) == Effect(d, 0, 0, 0, "", FALSE, TRUE)

PermittedAlways(d) == TRUE

\* _calc_energy_update_permitted
CalcEnergyUpdatePermitted(d) == d.flag \in AcceptableValues

\* value = float(value or self.energy.get())
ValueOrEnergy(d, value) == IF value = 0 THEN d.energy ELSE value

UpdateCalcEnergyOffsetInKeV(d, value) ==
    IF ~d.connected THEN Effect(d, 0, 0, 0, "", TRUE, TRUE)
    ELSE IF d.units # "keV" /\ d.units \notin SupportedUnits
         THEN Effect(d, 0, 0, 0, "pint", FALSE, TRUE)
         ELSE Effect([d EXCEPT !.calcEnergy = ToKeV(ValueOrEnergy(d, value), d.units) + d.offset],
                     1, 0, 1, "", FALSE, ExactToKeV(ValueOrEnergy(d, value), d.units))

\* _update_calc_energy(value)
UpdateCalcEnergy(d, value) ==
    IF ~d.connected THEN Effect(d, 0, 0, 0, "", TRUE, TRUE)
    ELSE LET v == ValueOrEnergy(d, value) + d.offset
         IN  IF d.units # "keV" /\ d.units \notin SupportedUnits
             THEN Effect(d, 0, 0, 0, "pint", FALSE, TRUE)
             ELSE Effect([d EXCEPT !.calcEnergy = ToKeV(v, d.units)],
                         1, 0, 1, "", FALSE, ExactToKeV(v, d.units))

\* _energy_changed(value): the callback of the energy signal
EnergyChanged(d, value) ==
    IF ~d.connected THEN Effect(d, 0, 0, 0, "", TRUE, TRUE)
    ELSE IF CalcEnergyUpdatePermitted(d) THEN UpdateCalcEnergy(d, value)
         ELSE NoEffect(d)

\* self.energy.put(value): store the value, then run the subscribed callback
EnergyPut(d, value) == EnergyChanged([d EXCEPT !.energy = value], value)

\* self.energy.put(value) from inside a callback
NestedEnergyPut(d, value) ==
    LET e == EnergyPut(d, value) IN [e EXCEPT !.energyPuts = @ + 1]

EnergyOffsetChangedFromField(d, value) ==
    IF ~d.connected THEN Effect(d, 0, 0, 0, "", TRUE, TRUE)
    ELSE IF d.units \notin SupportedUnits
         THEN Effect(d, 0, 0, 0, "NotImplementedError", FALSE, TRUE)
         ELSE NestedEnergyPut(d, d.energy - value)

\* _energy_offset_changed(value): the callback of the energy_offset signal
EnergyOffsetChanged(d, value) ==
    IF ~d.connected THEN Effect(d, 0, 0, 0, "", TRUE, TRUE)
    ELSE IF d.units \notin SupportedUnits
         THEN Effect(d, 0, 0, 0, "NotImplementedError", FALSE, TRUE)
         ELSE NestedEnergyPut(d, FromKeV(d.calcEnergy, d.units) - value)

\* self.energy_offset.put(value)
EnergyOffsetPut(d, value) == EnergyOffsetChanged([d EXCEPT !.offset = value], value)

EnergyUnitsChangedUnconverted(d, value) ==
    IF ~d.connected THEN Effect(d, 0, 0, 0, "", TRUE, TRUE)
    ELSE IF value \notin SupportedUnits
         THEN Effect(d, 0, 0, 0, "pint", FALSE, TRUE)
         ELSE NestedEnergyPut(d, d.calcEnergy - d.offset)

EnergyUnitsChangedUnguarded(d, value) ==
    IF value \notin SupportedUnits
    THEN Effect(d, 0, 0, 0, "pint", FALSE, TRUE)
    ELSE NestedEnergyPut(d, FromKeV(d.calcEnergy, value) - d.offset)

\* _energy_units_changed(value): the callback of the energy_units signal
EnergyUnitsChanged(d, value) ==
    IF ~d.connected THEN Effect(d, 0, 0, 0, "", TRUE, TRUE)
    ELSE IF value \notin SupportedUnits
         THEN Effect(d, 0, 0, 0, "pint", FALSE, TRUE)
         ELSE NestedEnergyPut(d, FromKeV(d.calcEnergy, value) - d.offset)

\* self.energy_units.put(value)
EnergyUnitsPut(d, value) == EnergyUnitsChanged([d EXCEPT !.units = value], value)

\* self.energy_update_calc_flag.put(value): no callback is subscribed
EnergyUpdateCalcFlagPut(d, value) == NoEffect([d EXCEPT !.flag = value])

\* observer of a unit round trip: stage 1 after a put of e to energy under the
\* supported units u1, stage 2 after a following put of supported units,
\* stage 3 after a following put of u1 to the units; 0 otherwise
NoTrip == [stage |-> 0, e |-> 0, u1 |-> ""]

TripAfter(op, arg) ==
    IF op = "energy" /\ units \in SupportedUnits
    THEN [stage |-> 1, e |-> arg, u1 |-> units]
    ELSE IF op = "units" /\ trip.stage = 1 /\ arg \in SupportedUnits
    THEN [trip EXCEPT !.stage = 2]
    ELSE IF op = "units" /\ trip.stage = 2 /\ arg = trip.u1
    THEN [trip EXCEPT !.stage = 3]
    ELSE NoTrip

\* observer of the scenario: connected and update-enabled with units "keV" and
\* offset 0, put 8.0 to energy (stage 1), then 0.1 to the offset (stage 2),
\* then "eV" to the units (stage 3); 0 otherwise
SceneAfter(op, arg) ==
    IF /\ op = "energy" /\ arg = 8 * One
       /\ connected /\ flag \in AcceptableValues /\ units = "keV" /\ offset = 0
    THEN 1
    ELSE IF op = "offset" /\ arg = Tenth /\ scene = 1 THEN 2
    ELSE IF op = "units" /\ arg = "eV" /\ scene = 2 THEN 3
    ELSE 0

\* an energy operation `op` with argument `arg` and effect `e` acts on the device
DoEnergyOp(op, arg, e) ==
    /\ energy' = e.d.energy
    /\ units' = e.d.units
    /\ offset' = e.d.offset
    /\ flag' = e.d.flag
    /\ connected' = e.d.connected
    /\ calcEnergy' = e.d.calcEnergy
    /\ elast' = [op |-> op, arg |-> arg, pre |-> Device,
                 solverWrites |-> e.solverWrites, energyPuts |-> e.energyPuts,
                 positionUpdates |-> e.positionUpdates,
                 raised |-> e.raised, warned |-> e.warned, exact |-> e.exact]
    /\ trip' = TripAfter(op, arg)
    /\ scene' = SceneAfter(op, arg)
    /\ UNCHANGED <<cvars, avars, nvars>>

\* a caller puts to the energy signal
PutEnergy(value) == DoEnergyOp("energy", value, EnergyPut(Device, value))

\* a caller puts to the energy_offset signal
PutOffset(value) == DoEnergyOp("offset", value, EnergyOffsetPut(Device, value))

\* a caller puts to the energy_units signal
PutUnits(value) == DoEnergyOp("units", value, EnergyUnitsPut(Device, value))

\* a caller puts to the energy_update_calc_flag signal
PutFlag(value) == DoEnergyOp("flag", value, EnergyUpdateCalcFlagPut(Device, value))

\* the device connects or disconnects
SetConnected(value) ==
    /\ connected # value
    /\ DoEnergyOp("connected", value, NoEffect([Device EXCEPT !.connected = value]))

-----------------------------------------------------------------------------
(* A put and its callbacks, one callback at a time *)

\* most callbacks run for one put before the run is cut off here
MaxCalls == 4

\* the three signals with a subscription
EnergyFields == {"energy", "offset", "units"}

\* self.<signal>.subscribe(self.<callback>, event_type=Signal.SUB_VALUE)
Subscribed(field) ==
    IF field = "energy" THEN "_energy_changed"
    ELSE IF field = "offset" THEN "_energy_offset_changed"
    ELSE "_energy_units_changed"

\* the signal takes the value
Stored(d, field, value) ==
    IF field = "energy" THEN [d EXCEPT !.energy = value]
    ELSE IF field = "offset" THEN [d EXCEPT !.offset = value]
    ELSE [d EXCEPT !.units = value]

\* what a callback does up to its return or its own put: the device it
\* leaves, the put it makes (at most one sequence item <<field, value>>), the
\* exception it raises
Ran(d, puts, raised) == [d |-> d, puts |-> puts, raised |-> raised]

EnergyChangedBodyWritesUnits(d, value) ==
    Ran(EnergyChanged(d, value).d, <<<<"units", d.units>>>>, EnergyChanged(d, value).raised)

\* _energy_changed(value): no put
EnergyChangedBody(d, value) ==
    Ran(EnergyChanged(d, value).d, <<>>, EnergyChanged(d, value).raised)

\* _energy_offset_changed(value) up to self.energy.put(...), its last statement
EnergyOffsetChangedBody(d, value) ==
    IF ~d.connected THEN Ran(d, <<>>, "")
    ELSE IF d.units \notin SupportedUnits THEN Ran(d, <<>>, "NotImplementedError")
    ELSE Ran(d, <<<<"energy", FromKeV(d.calcEnergy, d.units) - value>>>>, "")

\* _energy_units_changed(value) up to self.energy.put(...), its last statement
EnergyUnitsChangedBody(d, value) ==
    IF ~d.connected THEN Ran(d, <<>>, "")
    ELSE IF value \notin SupportedUnits THEN Ran(d, <<>>, "pint")
    ELSE Ran(d, <<<<"energy", FromKeV(d.calcEnergy, value) - d.offset>>>>, "")

CallbackBody(cb, d, value) ==
    IF cb = "_energy_changed" THEN EnergyChangedBody(d, value)
    ELSE IF cb = "_energy_offset_changed" THEN EnergyOffsetChangedBody(d, value)
    ELSE EnergyUnitsChangedBody(d, value)

NoWrites == [f \in EnergyFields |-> 0]

NoChain == [root |-> "", calls |-> 0, writes |-> NoWrites, raised |-> ""]

SetDevice(d) ==
    /\ energy' = d.energy
    /\ units' = d.units
    /\ offset' = d.offset
    /\ flag' = d.flag
    /\ connected' = d.connected
    /\ calcEnergy' = d.calcEnergy

\* a caller puts `value` to the signal `field`: the signal stores it and
\* calls the subscribed callback
NotifyPut(field, value) ==
    /\ frames = <<>>
    /\ SetDevice(Stored(Device, field, value))
    /\ frames' = <<[cb |-> Subscribed(field), value |-> value, put |-> FALSE]>>
    /\ chain' = [root |-> field, calls |-> 0, writes |-> NoWrites, raised |-> ""]
    /\ UNCHANGED <<cvars, avars, elast, trip, scene>>

\* the innermost callback runs: to its end, to the exception it raises (which
\* unwinds every caller), or to its put, which stores the value and calls the
\* callback subscribed to that signal
RunCallback ==
    /\ frames # <<>>
    /\ ~frames[Len(frames)].put
    /\ chain.calls < MaxCalls
    /\ LET top == frames[Len(frames)]
           ran == CallbackBody(top.cb, Device, top.value)
       IN  IF ran.raised # ""
           THEN /\ SetDevice(ran.d)
                /\ frames' = <<>>
                /\ chain' = [chain EXCEPT !.calls = @ + 1, !.raised = ran.raised]
           ELSE IF ran.puts = <<>>
           THEN /\ SetDevice(ran.d)
                /\ frames' = SubSeq(frames, 1, Len(frames) - 1)
                /\ chain' = [chain EXCEPT !.calls = @ + 1]
           ELSE /\ SetDevice(Stored(ran.d, ran.puts[1][1], ran.puts[1][2]))
                /\ frames' = Append([frames EXCEPT ![Len(frames)].put = TRUE],
                                    [cb |-> Subscribed(ran.puts[1][1]),
                                     value |-> ran.puts[1][2], put |-> FALSE])
                /\ chain' = [chain EXCEPT !.calls = @ + 1,
                                          !.writes[ran.puts[1][1]] = @ + 1]
    /\ UNCHANGED <<cvars, avars, elast, trip, scene>>

\* the put of the innermost callback has returned: the callback returns
ReturnCallback ==
    /\ frames # <<>>
    /\ frames[Len(frames)].put
    /\ frames' = SubSeq(frames, 1, Len(frames) - 1)
    /\ UNCHANGED <<cvars, avars, energy, units, offset, flag, connected, calcEnergy,
                   elast, trip, scene, chain>>

\* the flag is put or the connection changes between two puts
NotifyFlag(value) ==
    /\ frames = <<>>
    /\ flag # value
    /\ flag' = value
    /\ UNCHANGED <<cvars, avars, energy, units, offset, connected, calcEnergy,
                   elast, trip, scene, nvars>>

NotifyConnected(value) ==
    /\ frames = <<>>
    /\ connected # value
    /\ connected' = value
    /\ UNCHANGED <<cvars, avars, energy, units, offset, flag, calcEnergy,
                   elast, trip, scene, nvars>>

-----------------------------------------------------------------------------
(* Construction, forward, inverse, check_value *)

\* longest solution sequence the solver's forward search returns here
MaxSolutions == 2

\* most keys of a mapping passed to check_value here
MaxKeys == 2

\* forward_iter(..., max_iters=100)
MaxIters == 100

\* the pseudo positioners of the device
PseudoAxes == {"h", "k"}

PseudoOrder == <<"h", "k">>

\* attributes of the device that are no positioners
OtherAttributes == {"energy"}

\* names that are no attribute of the device
UnknownNames == {"bogus"}

\* hasattr(self, axis)
HasAttr(axis) == axis \in RealAxes \cup PseudoAxes \cup OtherAttributes

\* real positions (omega, tth)
HomePosition == <<0, 0>>

RealPositions == {HomePosition, <<10, 20>>}

\* pseudo positions (h, k)
PseudoNow == <<0, 0>>

PseudoTargets == {<<1, 0>>, <<0, 1>>}

\* what the solver's forward search may return: zero or more solutions
SolverAnswers == UNION {[1..n -> RealPositions] : n \in 0..MaxSolutions}

\* decision functions a caller passes at construction ("default" when None)
DecisionFcns == {"default", "last", "home"}

\* calc.default_decision_function: the first solution, solutions[0]
DefaultDecisionFunction(target, solutions) ==
    IF Len(solutions) = 0
    THEN [result |-> <<>>, raised |-> "IndexError"]
    ELSE [result |-> solutions[1], raised |-> ""]

\* self._decision_fcn(pseudo, solutions) for the function given at construction
Decide(fcn, target, solutions) ==
    IF fcn = "default" THEN DefaultDecisionFunction(target, solutions)
    ELSE IF fcn = "last"
    THEN (IF Len(solutions) = 0
          THEN [result |-> <<>>, raised |-> "IndexError"]
          ELSE [result |-> solutions[Len(solutions)], raised |-> ""])
    ELSE [result |-> HomePosition, raised |-> ""]

\* calc_inst arguments: None, or an instance that is or is not of calc_class
\* and whose engine is or is not locked
CalcInsts ==
    {[given |-> FALSE, isInstance |-> TRUE, engineLocked |-> TRUE]}
        \cup [given : {TRUE}, isInstance : BOOLEAN, engineLocked : BOOLEAN]

EnergySignals == {"energy", "energy_offset", "energy_units"}

Built(raised, superInit, subscribed, stk, locked, fcn) ==
    [raised |-> raised, superInit |-> superInit, subscribed |-> subscribed,
     stack |-> stk, engineLocked |-> locked, decisionFcn |-> fcn]

InitOutcomeLockUnchecked(calcInst, fcn) ==
    IF calcInst.given /\ ~calcInst.isInstance
    THEN Built("ValueError", FALSE, {}, <<>>, calcInst.engineLocked, fcn)
    ELSE Built("", TRUE, EnergySignals, <<>>, calcInst.engineLocked, fcn)

\* __init__(prefix, calc_kw, decision_fcn, calc_inst)
InitOutcome(calcInst, fcn) ==
    IF calcInst.given /\ ~calcInst.isInstance
    THEN Built("ValueError", FALSE, {}, <<>>, calcInst.engineLocked, fcn)
    ELSE IF ~calcInst.engineLocked
    THEN Built("ValueError", FALSE, {}, <<>>, calcInst.engineLocked, fcn)
    ELSE Built("", TRUE, EnergySignals, <<>>, calcInst.engineLocked, fcn)

ForwardOutcomeFirstOnly(pos, pseudo, fcn, answer) ==
    LET shown == IF Len(answer) > 1 THEN <<answer[1]>> ELSE answer
        picked == Decide(fcn, pseudo, shown)
    IN  [iterCalls |-> <<[start |-> pos, end |-> pseudo, max_iters |-> MaxIters]>>,
         decisionCalls |-> <<[target |-> pseudo, solutions |-> shown]>>,
         result |-> picked.result, raised |-> picked.raised]

\* forward(pseudo); `answer` is what self.calc.forward_iter returns
ForwardOutcome(pos, pseudo, fcn, answer) ==
    LET picked == Decide(fcn, pseudo, answer)
    IN  [iterCalls |-> <<[start |-> pos, end |-> pseudo, max_iters |-> MaxIters]>>,
         decisionCalls |-> <<[target |-> pseudo, solutions |-> answer]>>,
         result |-> picked.result, raised |-> picked.raised]

\* inverse(real); `answer` is what self.calc.pseudo_positions then reads
InverseOutcome(real, answer) == [physical |-> real, result |-> answer]

\* p.check_value(target) of a real positioner: LimitError outside its limits
InRealLimits(v) == v >= -180 /\ v <= 180

\* super().check_value(pos): the framework's check of the composite target
InPseudoLimits(v) == v >= -100 /\ v <= 100

\* values of a mapping passed to check_value
TargetValues == {0, 500}

AxisNames == RealAxes \cup PseudoAxes \cup OtherAttributes \cup UnknownNames

\* dicts passed to check_value, in insertion order, keys distinct
Mappings ==
    {m \in UNION {[1..n -> [key : AxisNames, value : TargetValues]] : n \in 0..MaxKeys} :
        \A i, j \in 1..Len(m) : i # j => m[i].key # m[j].key}

Checked(raised, key) == [raised |-> raised, key |-> key]

RECURSIVE ScanItemsPositionersOnly(_, _)
ScanItemsPositionersOnly(items, i) ==
    IF i > Len(items) THEN Checked("", "")
    ELSE IF items[i].key \in RealAxes \cup PseudoAxes
    THEN IF items[i].key \in RealAxes /\ ~InRealLimits(items[i].value)
         THEN Checked("LimitError", items[i].key)
         ELSE ScanItemsPositionersOnly(items, i + 1)
    ELSE Checked("KeyError", items[i].key)

\* for axis, target in pos.items(): ... (lines 387-393), from item i on
RECURSIVE ScanItems(_, _)
ScanItems(items, i) ==
    IF i > Len(items) THEN Checked("", "")
    ELSE IF HasAttr(items[i].key)
    THEN IF items[i].key \in RealAxes /\ ~InRealLimits(items[i].value)
         THEN Checked("LimitError", items[i].key)
         ELSE ScanItems(items, i + 1)
    ELSE Checked("KeyError", items[i].key)

\* pos.get(name, default)
DictGet(items, name, default) ==
    IF \E i \in 1..Len(items) : items[i].key = name
    THEN items[CHOOSE i \in 1..Len(items) : items[i].key = name].value
    ELSE default

\* [pos.get(p.attr_name, p.position) for p in self.pseudo_positioners]
Composite(items) ==
    [i \in 1..Len(PseudoOrder) |-> DictGet(items, PseudoOrder[i], PseudoNow[i])]

\* super().check_value(pos)
SuperCheckValue(composite) ==
    IF \E i \in 1..Len(composite) : ~InPseudoLimits(composite[i])
    THEN Checked("LimitError",
                 PseudoOrder[CHOOSE i \in 1..Len(composite) : ~InPseudoLimits(composite[i])])
    ELSE Checked("", "")

\* check_value(pos) for a dict pos
CheckValueOutcome(items) ==
    LET scan == ScanItems(items, 1)
    IN  IF scan.raised # "" THEN scan ELSE SuperCheckValue(Composite(items))

\* a caller constructs a Diffractometer: a failed construction leaves no device
Construct(calcInst, fcn) ==
    LET out == InitOutcome(calcInst, fcn)
    IN  /\ alast' = [op |-> "init", calcInst |-> calcInst, fcn |-> fcn, out |-> out]
        /\ IF out.raised = ""
           THEN /\ stack' = out.stack
                /\ engineLocked' = out.engineLocked
                /\ decisionFcn' = out.decisionFcn
           ELSE UNCHANGED <<stack, engineLocked, decisionFcn>>
        /\ UNCHANGED <<calcAxes, chist, baseline, applied, evars, position, calcPhysical, rvars>>

\* a caller calls forward(pseudo)
Forward(pseudo, answer) ==
    /\ alast' = [op |-> "forward", target |-> pseudo, answer |-> answer,
                 position |-> position, connected |-> connected, fcn |-> decisionFcn,
                 out |-> ForwardOutcome(position, pseudo, decisionFcn, answer)]
    /\ UNCHANGED <<cvars, evars, position, decisionFcn, engineLocked, calcPhysical>>

\* a caller calls inverse(real)
Inverse(real, answer) ==
    /\ calcPhysical' = InverseOutcome(real, answer).physical
    /\ alast' = [op |-> "inverse", real |-> real, connected |-> connected,
                 prePhysical |-> calcPhysical, out |-> InverseOutcome(real, answer)]
    /\ UNCHANGED <<cvars, evars, position, decisionFcn, engineLocked>>

\* a caller calls check_value(pos) with a dict
CheckValue(items) ==
    /\ alast' = [op |-> "check_value", items |-> items, out |-> CheckValueOutcome(items)]
    /\ UNCHANGED <<cvars, evars, position, decisionFcn, engineLocked, calcPhysical>>

\* the motors move
MoveTo(real) ==
    /\ position # real
    /\ position' = real
    /\ alast' = [op |-> "move", real |-> real]
    /\ UNCHANGED <<cvars, evars, decisionFcn, engineLocked, calcPhysical>>

\* the device connects or disconnects
Reconnect(value) ==
    /\ connected # value
    /\ connected' = value
    /\ alast' = [op |-> "connected", value |-> value]
    /\ UNCHANGED <<cvars, energy, units, offset, flag, calcEnergy, elast, trip, scene,
                   position, decisionFcn, engineLocked, calcPhysical, nvars>>

\* deepest stack of the calls made while the connection state varies
MaxOffline == 2

\* a constraint operation `op` with outcome `out` acts on the device, connected or not
CallConstraintOp(op, arg, out) ==
    /\ calcAxes' = out.calc
    /\ stack' = out.stack
    /\ baseline' = IF out.stack = <<>> THEN out.calc ELSE baseline
    /\ applied' = AppliedAfter(op)
    /\ alast' = [op |-> op, arg |-> arg, connected |-> connected, pre |-> calcAxes,
                 preLen |-> Len(stack),
                 top |-> IF stack = <<>> THEN calcAxes ELSE stack[Len(stack)],
                 bottom |-> IF stack = <<>> THEN calcAxes ELSE stack[1],
                 after |-> IF alast.op = "apply" /\ alast.raised THEN <<alast.pre>> ELSE <<>>,
                 raised |-> out.raised]
    /\ UNCHANGED <<chist, evars, position, decisionFcn, engineLocked, calcPhysical, rvars>>

\* apply_constraints(constraints), whatever self.connected is
CallApplyConstraints(constraints) ==
    /\ Len(stack) < MaxOffline
    /\ CallConstraintOp("apply", constraints, ApplyConstraintsOutcome(calcAxes, stack, constraints))

\* reset_constraints(), whatever self.connected is
CallResetConstraints ==
    CallConstraintOp("reset", <<>>, ResetConstraintsOutcome(calcAxes, stack))

\* undo_last_constraints(), whatever self.connected is
CallUndoLastConstraints ==
    CallConstraintOp("undo", <<>>, UndoLastConstraintsOutcome(calcAxes, stack))

\* where _set_constraints raises for an item of the dict: at self.calc[axis]
\* (the solver has no such axis), or at the assignment of limits, value or fit
\* (the solver rejects it)
FailPoints == {"axis", "limits", "value", "fit"}

\* the item at which _set_constraints raises
FailingItems ==
    [axis : UnknownNames, c : ConstraintChoices, at : {"axis"}]
        \cup [axis : RealAxes, c : ConstraintChoices, at : FailPoints \ {"axis"}]

\* the dicts for which _set_constraints raises: the items written before the
\* failing one, and the failing one
FailingConstraintSets ==
    {x \in [done : ConstraintSets, bad : FailingItems] : x.bad.axis \notin DOMAIN x.done}

\* an axis of the solver when the assignment `at` was refused: the earlier
\* assignments of the three (limits, value, fit) are made
PartlySet(old, c, at) ==
    IF at = "value" THEN Constraint(c.low_limit, c.high_limit, old.value, old.fit)
    ELSE IF at = "fit" THEN Constraint(c.low_limit, c.high_limit, c.value, old.fit)
    ELSE old

\* _set_constraints raising at the item `bad` after the items `done`
SetConstraintsUntil(calc, done, bad) ==
    [m \in RealAxes |->
        IF m = bad.axis THEN PartlySet(calc[m], bad.c, bad.at)
        ELSE SetConstraints(calc, done)[m]]

ApplyConstraintsFailingSetFirst(calc, stk, done, bad) ==
    Outcome(SetConstraintsUntil(calc, done, bad), stk, AxesWritten(done), TRUE)

\* apply_constraints(constraints) when _set_constraints raises: the snapshot
\* is pushed before the first write
ApplyConstraintsFailingOutcome(calc, stk, done, bad) ==
    Outcome(SetConstraintsUntil(calc, done, bad), PushCurrentConstraints(calc, stk),
            AxesWritten(done), TRUE)

\* a caller calls apply_constraints with a dict the solver refuses partway
CallFailingApply(done, bad) ==
    /\ Len(stack) < MaxOffline
    /\ CallConstraintOp("apply", [done |-> done, bad |-> bad],
                        ApplyConstraintsFailingOutcome(calcAxes, stack, done, bad))

-----------------------------------------------------------------------------
(* Constraint operations of two threads, one solver access at a time *)

\* deepest stack of the calls made by the threads
MaxRace == 2

\* the dict the threads pass to apply_constraints: one constraint for every real axis
RaceConstraintSets == {[m \in RealAxes |-> Constraint(-10, 170, 5, FALSE)]}

\* the threads of the host that call the constraint operations
Threads == {"t1", "t2"}

\* self.real_positioners._fields, in order
AxisOrder == <<"omega", "tth">>

\* a thread: the operation it is in, the step it is at, the axes it has read
\* for its snapshot, the items it has still to write; `cand` and `torn` are
\* observers: the solver states since its first read that agree with what it
\* has read, and whether none was left at its last read
Idle == [op |-> "idle", pc |-> "", read |-> <<>>, todo |-> <<>>, cand |-> {}, torn |-> FALSE]

ReadAxisFitDropped(calc, m) ==
    Constraint(calc[m].low_limit, calc[m].high_limit, calc[m].value, TRUE)

\* Constraint(*self.calc[m].limits, self.calc[m].value, self.calc[m].fit) for one axis
ReadAxis(calc, m) ==
    Constraint(calc[m].low_limit, calc[m].high_limit, calc[m].value, calc[m].fit)

\* constraints.items(): the axes of the dict with their constraints, in order
Items(constraints) ==
    LET axes == SelectSeq(AxisOrder, LAMBDA m : m \in DOMAIN constraints)
    IN  [i \in 1..Len(axes) |-> <<axes[i], constraints[axes[i]]>>]

\* the dict built from the axes read
Snapshot(read) == [m \in RealAxes |-> read[CHOOSE k \in 1..Len(AxisOrder) : AxisOrder[k] = m]]

\* the host's lock, when it takes one: no other thread is inside an operation
MayRun(t) == serialized => \A u \in Threads \ {t} : threads[u].op = "idle"

\* thread t reads its next axis
AfterRead(th, calc) ==
    LET m == AxisOrder[Len(th.read) + 1]
        value == ReadAxis(calc, m)
        seen == IF th.read = <<>> THEN {calc} ELSE th.cand
        left == {w \in seen : w[m] = value}
        all == Len(th.read) + 1 = Len(AxisOrder)
    IN  [th EXCEPT !.read = Append(@, value),
                   !.cand = IF all THEN {} ELSE left,
                   !.torn = all /\ left = {},
                   !.pc = IF all THEN "push" ELSE "read"]

\* the solver has become `calc` while the thread is between two of its reads
Observed(th, calc) ==
    IF th.pc = "read" /\ \A k \in 1..Len(th.read) : calc[AxisOrder[k]] = th.read[k]
    THEN [th EXCEPT !.cand = @ \cup {calc}]
    ELSE th

\* thread t calls apply_constraints(constraints): _push_current_constraints reads the first axis
RaceApply(t, constraints) ==
    /\ threads[t].op = "idle"
    /\ MayRun(t)
    /\ Len(stack) + Cardinality({u \in Threads : threads[u].pc \in {"read", "push"}}) < MaxRace
    /\ threads' = [threads EXCEPT ![t] =
                      AfterRead([Idle EXCEPT !.op = "apply", !.pc = "read",
                                             !.todo = Items(constraints)], calcAxes)]
    /\ UNCHANGED <<calcAxes, stack, chist, baseline, applied, serialized, lastPush, evars, avars>>

\* _push_current_constraints reads the next axis
RaceRead(t) ==
    /\ threads[t].pc = "read"
    /\ threads' = [threads EXCEPT ![t] = AfterRead(@, calcAxes)]
    /\ UNCHANGED <<calcAxes, stack, chist, baseline, applied, serialized, lastPush, evars, avars>>

\* self._constraints_stack.append(constraints)
RacePush(t) ==
    /\ threads[t].pc = "push"
    /\ stack' = Append(stack, Snapshot(threads[t].read))
    /\ lastPush' = [thread |-> t, torn |-> threads[t].torn, serialized |-> serialized]
    /\ threads' = [threads EXCEPT ![t] =
                      IF @.todo = <<>> THEN Idle
                      ELSE [@ EXCEPT !.pc = "write", !.read = <<>>, !.torn = FALSE]]
    /\ UNCHANGED <<calcAxes, chist, baseline, applied, serialized, evars, avars>>

\* _set_constraints writes the next item into the solver
RaceWrite(t) ==
    /\ threads[t].pc = "write"
    /\ LET item == Head(threads[t].todo)
           calc == SetConstraints(calcAxes, (item[1] :> item[2]))
           rest == Tail(threads[t].todo)
       IN  /\ calcAxes' = calc
           /\ threads' = [u \in Threads |->
                            IF u # t THEN Observed(threads[u], calc)
                            ELSE IF rest # <<>> THEN [threads[t] EXCEPT !.todo = rest]
                            ELSE IF threads[t].op = "reset" THEN [threads[t] EXCEPT !.todo = rest, !.pc = "clear"]
                            ELSE Idle]
    /\ UNCHANGED <<stack, chist, baseline, applied, serialized, lastPush, evars, avars>>

\* thread t calls undo_last_constraints() with a non-empty stack: .pop()
RaceUndo(t) ==
    /\ threads[t].op = "idle"
    /\ MayRun(t)
    /\ stack # <<>>
    /\ stack' = Popped(stack)
    /\ threads' = [threads EXCEPT ![t] =
                      [Idle EXCEPT !.op = "undo", !.pc = "write",
                                   !.todo = Items(stack[Len(stack)])]]
    /\ UNCHANGED <<calcAxes, chist, baseline, applied, serialized, lastPush, evars, avars>>

\* thread t calls reset_constraints() with a non-empty stack: it takes stack[0]
RaceReset(t) ==
    /\ threads[t].op = "idle"
    /\ MayRun(t)
    /\ stack # <<>>
    /\ threads' = [threads EXCEPT ![t] =
                      [Idle EXCEPT !.op = "reset", !.pc = "write", !.todo = Items(stack[1])]]
    /\ UNCHANGED <<calcAxes, stack, chist, baseline, applied, serialized, lastPush, evars, avars>>

\* reset_constraints: self._constraints_stack = []
RaceClear(t) ==
    /\ threads[t].pc = "clear"
    /\ stack' = <<>>
    /\ threads' = [threads EXCEPT ![t] = Idle]
    /\ UNCHANGED <<calcAxes, chist, baseline, applied, serialized, lastPush, evars, avars>>

\* the host starts or stops serializing the operations, between operations
HostSerializes(value) ==
    /\ serialized # value
    /\ \A u \in Threads : threads[u].op = "idle"
    /\ serialized' = value
    /\ UNCHANGED <<calcAxes, stack, chist, baseline, applied, threads, lastPush, evars, avars>>

-----------------------------------------------------------------------------
(* Specifications *)

Init ==
    /\ calcAxes = [m \in RealAxes |-> InitialConstraint]
    /\ stack = <<>>
    /\ chist = <<>>
    /\ baseline = [m \in RealAxes |-> InitialConstraint]
    /\ applied = 0
    /\ energy = DefaultEnergy
    /\ units = "keV"
    /\ offset = 0
    /\ flag = "True"
    /\ connected = TRUE
    /\ calcEnergy = DefaultEnergy
    /\ elast = [op |-> "none", arg |-> 0, pre |-> Device,
                solverWrites |-> 0, energyPuts |-> 0, positionUpdates |-> 0,
                raised |-> "", warned |-> FALSE, exact |-> TRUE]
    /\ trip = NoTrip
    /\ scene = 0
    /\ position = HomePosition
    /\ decisionFcn = "default"
    /\ engineLocked = TRUE
    /\ calcPhysical = HomePosition
    /\ alast = [op |-> "none"]
    /\ frames = <<>>
    /\ chain = NoChain
    /\ threads = [t \in Threads |-> Idle]
    /\ serialized = TRUE
    /\ lastPush = [thread |-> "", torn |-> FALSE, serialized |-> TRUE]

Next ==
    \/ \E c \in ConstraintSets : ApplyConstraints(c)
    \/ ResetConstraints
    \/ UndoLastConstraints

Spec == Init /\ [][Next]_vars

NextEnergy ==
    \/ \E v \in Energies : PutEnergy(v)
    \/ \E v \in Offsets : PutOffset(v)
    \/ \E v \in UnitNames : PutUnits(v)
    \/ \E v \in FlagChoices : PutFlag(v)
    \/ \E v \in BOOLEAN : SetConnected(v)

SpecEnergy == Init /\ [][NextEnergy]_vars

NextAdapter ==
    \/ \E c \in CalcInsts, f \in DecisionFcns : Construct(c, f)
    \/ \E t \in PseudoTargets, a \in SolverAnswers : Forward(t, a)
    \/ \E r \in RealPositions, t \in PseudoTargets : Inverse(r, t)
    \/ \E r \in RealPositions : MoveTo(r)
    \/ \E v \in BOOLEAN : Reconnect(v)

SpecAdapter == Init /\ [][NextAdapter]_vars

NextOffline ==
    \/ \E c \in ConstraintSets : CallApplyConstraints(c)
    \/ CallResetConstraints
    \/ CallUndoLastConstraints
    \/ \E t \in PseudoTargets, a \in SolverAnswers : Forward(t, a)
    \/ \E r \in RealPositions, t \in PseudoTargets : Inverse(r, t)
    \/ \E v \in BOOLEAN : Reconnect(v)

SpecOffline == Init /\ [][NextOffline]_vars

NextNotify ==
    \/ \E v \in Energies : NotifyPut("energy", v)
    \/ \E v \in Offsets : NotifyPut("offset", v)
    \/ \E v \in UnitNames : NotifyPut("units", v)
    \/ RunCallback
    \/ ReturnCallback
    \/ \E v \in FlagChoices : NotifyFlag(v)
    \/ \E v \in BOOLEAN : NotifyConnected(v)

\* a callback that was called runs, and a put that was made returns
SpecNotify == Init /\ [][NextNotify]_vars /\ WF_vars(RunCallback) /\ WF_vars(ReturnCallback)

NextFailingApply ==
    \/ \E c \in ConstraintSets : CallApplyConstraints(c)
    \/ \E x \in FailingConstraintSets : CallFailingApply(x.done, x.bad)
    \/ CallResetConstraints
    \/ CallUndoLastConstraints

SpecFailingApply == Init /\ [][NextFailingApply]_vars

NextRace ==
    \/ \E t \in Threads, c \in RaceConstraintSets : RaceApply(t, c)
    \/ \E t \in Threads : RaceRead(t)
    \/ \E t \in Threads : RacePush(t)
    \/ \E t \in Threads : RaceWrite(t)
    \/ \E t \in Threads : RaceUndo(t)
    \/ \E t \in Threads : RaceReset(t)
    \/ \E t \in Threads : RaceClear(t)
    \/ \E v \in BOOLEAN : HostSerializes(v)

SpecRace == Init /\ [][NextRace]_vars

NextCheckValue == \E m \in Mappings : CheckValue(m)

SpecCheckValue == Init /\ [][NextCheckValue]_vars

-----------------------------------------------------------------------------
(* Observed operations *)

\* the k-th most recent constraint operation (1 = the last one)
COp(k) == chist[Len(chist) + 1 - k]

\* the solver's axes right after the k-th most recent constraint operation
CPost(k) == IF k = 1 THEN calcAxes ELSE COp(k - 1).pre

\* the stack length right after the k-th most recent constraint operation
CPostLen(k) == IF k = 1 THEN Len(stack) ELSE COp(k - 1).preLen

\* the last k constraint operations were the operations ops, in this order
LastConstraintOps(ops) ==
    /\ Len(chist) >= Len(ops)
    /\ \A i \in 1..Len(ops) : COp(Len(ops) + 1 - i).op = ops[i]

-----------------------------------------------------------------------------
(* Claims about the constraint stack *)

\* C1: apply_constraints(C) followed immediately by undo_last_constraints()
\* leaves limits, value and fit of every real axis as they were before the
\* apply, and the stack at its pre-apply length.
C1_ApplyUndoRoundTrip ==
    LastConstraintOps(<<"apply", "undo">>) =>
        /\ \A m \in RealAxes : calcAxes[m] = COp(2).pre[m]
        /\ Len(stack) = COp(2).preLen

\* C1 happens: an apply that changed both axes was undone
C1_Witness ==
    /\ LastConstraintOps(<<"apply", "undo">>)
    /\ COp(2).written = RealAxes
    /\ \A m \in RealAxes : CPost(2)[m] # COp(2).pre[m]
    /\ COp(2).preLen > 0

\* C2: after one or more applies since the stack was last empty (undos that do
\* not empty it may be interleaved), reset_constraints() leaves every real axis
\* as it was just before the first of those applies, and the stack empty.
C2_ResetRestoresBaseline ==
    (LastConstraintOps(<<"reset">>) /\ COp(1).preLen >= 1) =>
        /\ \A m \in RealAxes : calcAxes[m] = COp(1).base[m]
        /\ stack = <<>>

\* C2 happens: a reset of a stack of several snapshots, from a state that
\* differs from the baseline and from the newest snapshot
C2_Witness ==
    /\ LastConstraintOps(<<"apply", "undo", "reset">>)
    /\ COp(1).preLen >= 2
    /\ COp(1).pre # COp(1).base
    /\ COp(3).pre # COp(1).base

\* C3: undo is last-in-first-out. From an empty stack, after apply(A); apply(B);
\* undo the solver is as it was right after apply(A) and the stack holds one
\* snapshot; a reset that follows apply(B); undo at that depth restores the
\* state from before apply(A) and empties the stack.
C3_UndoIsLifo ==
    /\ (LastConstraintOps(<<"apply", "apply", "undo">>) /\ COp(3).preLen = 0) =>
           /\ calcAxes = CPost(3)
           /\ Len(stack) = 1
    /\ (LastConstraintOps(<<"apply", "undo", "reset">>) /\ COp(3).preLen = 1) =>
           /\ calcAxes = COp(3).base
           /\ stack = <<>>

\* C3 happens: A and B differ from each other and from the initial state
C3_Witness ==
    /\ LastConstraintOps(<<"apply", "apply", "undo">>)
    /\ COp(3).preLen = 0
    /\ CPost(3) # COp(3).pre
    /\ CPost(2) # CPost(3)
    /\ CPost(2) # COp(3).pre

\* C4: with an empty stack undo_last_constraints() and reset_constraints()
\* raise nothing, write no axis into the solver and leave the stack empty.
C4_EmptyStackNoOp ==
    (Len(chist) >= 1 /\ COp(1).op \in {"undo", "reset"} /\ COp(1).preLen = 0) =>
        /\ ~COp(1).raised
        /\ COp(1).written = {}
        /\ calcAxes = COp(1).pre
        /\ stack = <<>>

\* C4 happens: an undo and then a reset on the empty stack
C4_Witness ==
    /\ LastConstraintOps(<<"undo", "reset">>)
    /\ COp(2).preLen = 0
    /\ COp(1).preLen = 0

-----------------------------------------------------------------------------
(* Claims about energy, units and offset *)

\* the last operation was a put to energy, energy_offset or energy_units that
\* ran to its end with the device connected, the update flag enabled and
\* supported units
SettledPut ==
    /\ elast.op \in {"energy", "offset", "units"}
    /\ elast.raised = ""
    /\ connected
    /\ flag \in AcceptableValues
    /\ units \in SupportedUnits

\* the divisions of the unit conversions are exact: the one the last operation
\* did, and the ones the claims below do after a settled put
ArithmeticExact ==
    /\ elast.exact
    /\ SettledPut => (ExactToKeV(energy, units) /\ ExactToKeV(energy + offset, units))

\* C5 as stated: after a settled put the solver energy equals
\* convert(energy, units -> keV) + offset, for every supported unit and offset.
C5_AsStated ==
    SettledPut => calcEnergy = ToKeV(energy, units) + offset

\* C5 as amended: after a settled put the solver energy equals
\* convert(energy + offset, units -> keV): the offset is in the units of the
\* energy field.
C5_SolverEnergyAfterPut ==
    SettledPut => calcEnergy = ToKeV(energy + offset, units)

\* C5 happens: a settled put under units eV and a non-zero offset
C5_Witness ==
    /\ SettledPut
    /\ units = "eV"
    /\ offset # 0
    /\ elast.solverWrites = 1

\* C6 as stated: in the scenario the solver energy is 8.0 after the energy put;
\* the energy field is 7.9 and the solver energy 8.0 after the offset put; the
\* energy field is 7900.0 and the solver energy 8.0 after the units put.
C6_AsStated ==
    /\ scene = 1 => calcEnergy = 8 * One
    /\ scene = 2 => (energy = 79 * Tenth /\ calcEnergy = 8 * One)
    /\ scene = 3 => (energy = 7900 * One /\ calcEnergy = 8 * One)

\* C6 as amended: the same, with the energy field 7999.9 after the units put
\* (8000 eV less the offset 0.1, which is now in eV).
C6_Scenario ==
    /\ scene = 1 => calcEnergy = 8 * One
    /\ scene = 2 => (energy = 79 * Tenth /\ calcEnergy = 8 * One)
    /\ scene = 3 => (energy = 79999 * Tenth /\ calcEnergy = 8 * One)

\* C6 happens: the three puts of the scenario were made
C6_Witness == scene = 3 /\ units = "eV" /\ offset = Tenth

\* C7 as stated: put E under units U1, put U2, put U1 back: the energy field
\* is E again, whatever the connected and update flags are.
C7_AsStated ==
    trip.stage = 3 => energy = trip.e

\* C7 as amended: the energy field is E again when the device is not connected
\* or is connected with the update flag enabled; connected with the flag
\* disabled it is convert(solver energy, keV -> U1) - offset instead.
C7_UnitRoundTrip ==
    trip.stage = 3 =>
        IF ~connected \/ flag \in AcceptableValues
        THEN energy = trip.e
        ELSE energy = FromKeV(calcEnergy, trip.u1) - offset

\* C7 happens: a round trip eV -> keV -> eV of a non-zero energy under a
\* non-zero offset, connected and update-enabled
C7_Witness ==
    /\ trip.stage = 3
    /\ trip.u1 = "eV"
    /\ trip.e # 0
    /\ offset # 0
    /\ connected
    /\ flag \in AcceptableValues
    /\ elast.pre.units = "keV"

\* C8: when connected, a put of new_offset to the offset sets the energy field
\* to convert(solver energy, keV -> current units) - new_offset (the units
\* being ones the conversion is defined for) and leaves the value of the
\* solver energy as it was.
C8_OffsetPut ==
    (elast.op = "offset" /\ elast.pre.connected /\ elast.pre.units \in SupportedUnits) =>
        /\ energy = FromKeV(elast.pre.calcEnergy, units) - elast.arg
        /\ calcEnergy = elast.pre.calcEnergy
        /\ offset = elast.arg

\* C8 happens: an offset put that moved the energy field, under eV, with the
\* energy field not in step with the solver before it
C8_Witness ==
    /\ elast.op = "offset"
    /\ elast.pre.connected
    /\ units = "eV"
    /\ elast.arg # 0
    /\ energy # elast.pre.energy
    /\ elast.pre.energy - elast.arg # energy

\* C9: when connected, a put of supported new_units to the units sets the
\* energy field to convert(solver energy, keV -> new_units) - offset and
\* leaves the value of the solver energy as it was.
C9_UnitsPut ==
    (elast.op = "units" /\ elast.pre.connected /\ elast.arg \in SupportedUnits) =>
        /\ energy = FromKeV(elast.pre.calcEnergy, elast.arg) - offset
        /\ calcEnergy = elast.pre.calcEnergy
        /\ units = elast.arg

\* C9 happens: a units put keV -> eV under a non-zero offset
C9_Witness ==
    /\ elast.op = "units"
    /\ elast.pre.connected
    /\ elast.arg = "eV"
    /\ elast.pre.units = "keV"
    /\ offset # 0
    /\ calcEnergy # 0

\* C10: with the update flag outside the accepted values a put to the energy
\* field is recorded in the field, the solver energy is unchanged and no
\* position recomputation is triggered.
C10_UpdateDisabled ==
    (elast.op = "energy" /\ elast.pre.flag \notin AcceptableValues) =>
        /\ energy = elast.arg
        /\ calcEnergy = elast.pre.calcEnergy
        /\ elast.solverWrites = 0
        /\ elast.positionUpdates = 0

\* C10 happens: connected, flag "Off", a put that an enabled flag would have
\* carried into the solver
C10_Witness ==
    /\ elast.op = "energy"
    /\ elast.pre.flag = "Off"
    /\ connected
    /\ units \in SupportedUnits
    /\ energy # elast.pre.energy
    /\ ToKeV(energy + offset, units) # calcEnergy

\* C11: when the device reports not connected, the callbacks of energy,
\* energy_offset and energy_units all return the same way: they raise nothing,
\* do not write the solver energy, do not put the energy field and trigger no
\* position recomputation.
C11_NotConnectedShortCircuit ==
    (elast.op \in {"energy", "offset", "units"} /\ ~elast.pre.connected) =>
        /\ elast.raised = ""
        /\ elast.warned
        /\ elast.solverWrites = 0
        /\ elast.energyPuts = 0
        /\ elast.positionUpdates = 0
        /\ calcEnergy = elast.pre.calcEnergy
        /\ elast.op # "energy" => energy = elast.pre.energy

\* C11 happens: not connected, a units put whose unit a connected device
\* could not convert, with the energy field out of step with the solver
C11_Witness ==
    /\ elast.op = "units"
    /\ ~connected
    /\ elast.arg = "furlong"
    /\ flag \in AcceptableValues
    /\ energy # calcEnergy

\* C12 as stated: connected, a put of an unsupported unit to energy_units
\* raises and changes nothing: the units field, the energy field and the
\* solver energy hold their values from before the put; and no put to energy
\* or energy_offset of a connected device raises.
C12_AsStated ==
    /\ (elast.op = "units" /\ elast.pre.connected /\ elast.arg \notin SupportedUnits) =>
           /\ elast.raised # ""
           /\ units = elast.pre.units
           /\ energy = elast.pre.energy
           /\ calcEnergy = elast.pre.calcEnergy
    /\ (elast.op \in {"energy", "offset"} /\ elast.pre.connected) => elast.raised = ""

\* C20 as stated: within the operation started by a put to energy_offset or
\* to energy_units the solver energy is never written, neither by the callback
\* nor by a callback reached from its put to the energy field.
C20_AsStated ==
    elast.op \in {"offset", "units"} => elast.solverWrites = 0

\* C19: after any sequence of apply_constraints, undo_last_constraints and
\* reset_constraints the stack length is the number of applies less the number
\* of effective undos since the stack was last empty, and element 0, when
\* present, is the snapshot of all real axes taken just before the first apply
\* since the stack was last empty.
C19_StackLifecycle ==
    /\ Len(stack) = applied
    /\ stack # <<>> =>
           /\ DOMAIN stack[1] = RealAxes
           /\ \A m \in RealAxes : stack[1][m] = baseline[m]

\* C19 happens: two snapshots are left after an undo, the older one differing
\* from the newer one and from the solver's axes
C19_Witness ==
    /\ LastConstraintOps(<<"apply", "apply", "undo">>)
    /\ Len(stack) = 2
    /\ stack[1] # stack[2]
    /\ stack[1] # calcAxes

\* C13: forward(target) calls the solver's forward search once, with start =
\* the live position, end = target and max_iters = 100, hands the whole answer
\* in the solver's order with the target to the decision function given at
\* construction, and returns what that function returns.
C13_ForwardDelegates ==
    alast.op = "forward" =>
        /\ alast.out.iterCalls =
               <<[start |-> alast.position, end |-> alast.target, max_iters |-> 100]>>
        /\ alast.out.decisionCalls =
               <<[target |-> alast.target, solutions |-> alast.answer]>>
        /\ alast.fcn = decisionFcn
        /\ alast.out.result = Decide(alast.fcn, alast.target, alast.answer).result
        /\ alast.out.raised = Decide(alast.fcn, alast.target, alast.answer).raised
        /\ (alast.fcn = "last" /\ alast.answer # <<>>) =>
               alast.out.result = alast.answer[Len(alast.answer)]

C13_Witness ==
    /\ alast.op = "forward"
    /\ alast.fcn = "last"
    /\ Len(alast.answer) = 2
    /\ alast.answer[1] # alast.answer[2]
    /\ alast.position # HomePosition
    /\ alast.out.result = alast.answer[2]

\* C14 as stated: forward raises NoSolutionError exactly when the search
\* yields no solution, and the decision function is not called on an empty
\* sequence.
C14_AsStated ==
    alast.op = "forward" =>
        /\ (alast.out.raised = "NoSolutionError") <=> (alast.answer = <<>>)
        /\ alast.answer = <<>> => alast.out.decisionCalls = <<>>

\* C15 as stated: a mapping with a key that is no positioner of the device
\* fails with a KeyError naming such a key, whatever the other keys are.
C15_AsStated ==
    (/\ alast.op = "check_value"
     /\ \E i \in 1..Len(alast.items) : alast.items[i].key \notin RealAxes \cup PseudoAxes) =>
        /\ alast.out.raised = "KeyError"
        /\ alast.out.key \notin RealAxes \cup PseudoAxes
        /\ \E i \in 1..Len(alast.items) : alast.items[i].key = alast.out.key

\* C16 as stated: a mapping that names a pseudo axis and a real axis is rejected.
C16_AsStated ==
    (/\ alast.op = "check_value"
     /\ \E i \in 1..Len(alast.items) : alast.items[i].key \in PseudoAxes
     /\ \E i \in 1..Len(alast.items) : alast.items[i].key \in RealAxes) =>
        alast.out.raised # ""

\* C17: construction with a solver instance of another class or with an
\* unlocked engine raises before the device is initialised and before any
\* energy subscription; a constructed device has a locked solver engine, an
\* empty constraint stack and the three energy subscriptions.
C17_ConstructionFailsFast ==
    /\ engineLocked
    /\ alast.op = "init" =>
           IF alast.calcInst.given /\ (~alast.calcInst.isInstance \/ ~alast.calcInst.engineLocked)
           THEN /\ alast.out.raised = "ValueError"
                /\ ~alast.out.superInit
                /\ alast.out.subscribed = {}
           ELSE /\ alast.out.raised = ""
                /\ alast.out.superInit
                /\ alast.out.engineLocked
                /\ alast.out.stack = <<>>
                /\ stack = <<>>
                /\ alast.out.subscribed = {"energy", "energy_offset", "energy_units"}
                /\ decisionFcn = alast.fcn

C17_Witness ==
    /\ alast.op = "init"
    /\ alast.calcInst.given
    /\ alast.calcInst.isInstance
    /\ ~alast.calcInst.engineLocked
    /\ alast.out.raised = "ValueError"
    /\ decisionFcn # alast.fcn

C21_NotifyTerminates ==
    /\ [](/\ chain.writes["offset"] = 0
          /\ chain.writes["units"] = 0
          /\ chain.writes["energy"] <= 1
          /\ (chain.root = "energy" => chain.writes["energy"] = 0)
          /\ chain.calls <= 2
          /\ Len(frames) <= 2)
    /\ ((frames # <<>>) ~> (frames = <<>>))

C21_Witness ==
    /\ chain.root = "units"
    /\ chain.writes["energy"] = 1
    /\ chain.calls = 2
    /\ frames = <<>>
    /\ calcEnergy # DefaultEnergy

\* C23: when apply_constraints raises partway through writing the solver,
\* the snapshot of the state before the call is on top of the stack, which
\* has grown by one, and a following undo_last_constraints restores every
\* real axis (limits, value, fit) to that state and pops it.
C23_FailedApplyUndone ==
    /\ (alast.op = "apply" /\ alast.raised) =>
           /\ Len(stack) = alast.preLen + 1
           /\ stack[Len(stack)] = alast.pre
    /\ (alast.op = "undo" /\ alast.after # <<>>) =>
           /\ calcAxes = alast.after[1]
           /\ Len(stack) = alast.preLen - 1

C23_Witness ==
    /\ alast.op = "undo"
    /\ alast.after # <<>>
    /\ alast.pre # calcAxes
    /\ \E m \in RealAxes : alast.pre[m] \notin ConstraintChoices \cup {InitialConstraint}
    /\ stack # <<>>

\* C22 as stated: whatever the interleaving of two constraint operations,
\* every pushed snapshot is the solver's state at one instant.
C22_AsStated == ~lastPush.torn

\* C22: when the host lets one constraint operation run at a time, every
\* pushed snapshot is the solver's state at one instant (the code takes no
\* lock itself).
C22_SerializedSnapshot == lastPush.serialized => ~lastPush.torn

C22_Witness ==
    /\ lastPush.thread = "t2"
    /\ lastPush.serialized
    /\ serialized
    /\ Len(stack) = 2
    /\ stack[1] # stack[2]
    /\ stack[2] # calcAxes

====
